---- MODULE Spec2Model ----
(***************************************************************************)
(* Model of scripts/version_manager.py of hugsndnugs/auto-versioning.      *)
(*                                                                         *)
(* Text (commit messages, version strings, the content of the version      *)
(* file) is a sequence of one-character strings, so that lower-casing,     *)
(* substring search, the two regular expressions, str.split, int() and     *)
(* the f-string rendering are computed character by character.             *)
(***************************************************************************)
EXTENDS Integers, Sequences, FiniteSets, TLC

VARIABLES
    file,             \* content of the version file, or NoFile
    pc,               \* position of the running call
    caller,           \* who called update_version_file: "main" or "direct"
    commit_message,   \* main: commit_message
    skip,             \* result of should_skip_version_update
    current_version,  \* main: current_version
    increment_type,   \* main: increment_type
    new_version,      \* main: new_version / update_version_file: new_version
    content,          \* update_version_file: content read from the file
    new_content,      \* update_version_file: new_content
    update_ok,        \* return value of update_version_file
    exit_code,        \* status passed to sys.exit
    outcome,          \* which of main's exits was taken
    read_back,        \* result of a read_current_version after a direct update
    runs              \* number of calls started so far

vars == <<file, pc, caller, commit_message, skip, current_version,
          increment_type, new_version, content, new_content, update_ok,
          exit_code, outcome, read_back, runs>>

----------------------------------------------------------------------------
(* Bounds *)

MaxFrags == 3        \* fragments per message, pure-function specification
MaxMainFrags == 2    \* fragments per message, specification of main
MaxComp == 9         \* largest component of a version given to increment_version
MaxUpdComp == 2      \* largest component of a version given to update_version_file
MaxRuns == 2         \* calls in a row
MaxFileFrags == 3    \* fragments per file given to read_current_version

----------------------------------------------------------------------------
(* Values that are not text *)

NoFile == <<"NoFile">>          \* the file does not exist
NoText == <<>>                  \* a text variable not assigned yet
None == "None"                  \* a name variable not assigned yet
ValueError == <<"ValueError">>  \* increment_version raised ValueError
NoExit == -1                    \* sys.exit not called yet

----------------------------------------------------------------------------
(* Characters and strings *)

UpperChars == <<"A","B","C","D","E","F","G","H","I","J","K","L","M",
                "N","O","P","Q","R","S","T","U","V","W","X","Y","Z">>
LowerChars == <<"a","b","c","d","e","f","g","h","i","j","k","l","m",
                "n","o","p","q","r","s","t","u","v","w","x","y","z">>
DigitChars == <<"0","1","2","3","4","5","6","7","8","9">>
Digits == {DigitChars[i] : i \in 1..10}
Whitespace == {" ", "\t", "\n", "\r"}
Quotes == {"\"", "'"}

LowerTable ==
    [c \in {UpperChars[i] : i \in 1..26} |->
        LowerChars[CHOOSE i \in 1..26 : UpperChars[i] = c]]

LowerChar(c) == IF c \in DOMAIN LowerTable THEN LowerTable[c] ELSE c

\* str.lower()
Lower(s) == [i \in 1..Len(s) |-> LowerChar(s[i])]

\* needle in hay
Contains(hay, needle) ==
    \E i \in 0..(Len(hay) - Len(needle)) :
        SubSeq(hay, i + 1, i + Len(needle)) = needle

\* str.strip()
RECURSIVE LStrip(_)
LStrip(s) ==
    IF Len(s) > 0 /\ s[1] \in Whitespace THEN LStrip(Tail(s)) ELSE s

RECURSIVE RStrip(_)
RStrip(s) ==
    IF Len(s) > 0 /\ s[Len(s)] \in Whitespace
    THEN RStrip(SubSeq(s, 1, Len(s) - 1))
    ELSE s

Strip(s) == RStrip(LStrip(s))

\* str.split('.')
RECURSIVE Split(_)
Split(s) ==
    IF \E i \in 1..Len(s) : s[i] = "."
    THEN LET i == CHOOSE k \in 1..Len(s) :
                      s[k] = "." /\ \A j \in 1..(k - 1) : s[j] # "."
         IN  <<SubSeq(s, 1, i - 1)>> \o Split(SubSeq(s, i + 1, Len(s)))
    ELSE <<s>>

IsDigits(p) == Len(p) > 0 /\ \A i \in 1..Len(p) : p[i] \in Digits

DigitVal(c) == (CHOOSE i \in 1..10 : DigitChars[i] = c) - 1

\* int(p) for a string of decimal digits
RECURSIVE PyInt(_)
PyInt(p) ==
    IF Len(p) = 0 THEN 0
    ELSE PyInt(SubSeq(p, 1, Len(p) - 1)) * 10 + DigitVal(p[Len(p)])

\* f"{n}" for a non-negative integer
RECURSIVE PyStr(_)
PyStr(n) ==
    IF n < 10 THEN <<DigitChars[n + 1]>>
    ELSE PyStr(n \div 10) \o <<DigitChars[(n % 10) + 1]>>

----------------------------------------------------------------------------
(* increment_version *)

increment_version_no_reset(version, type) ==
    LET parts == Split(version) IN
    IF Len(parts) # 3 THEN ValueError
    ELSE IF ~ \A i \in 1..3 : IsDigits(parts[i]) THEN ValueError
    ELSE LET major == PyInt(parts[1])
             minor == PyInt(parts[2])
             patch == PyInt(parts[3])
         IN  CASE type = "major" ->
                    PyStr(major + 1) \o <<".">> \o PyStr(minor) \o <<".">> \o PyStr(0)
               [] type = "minor" ->
                    PyStr(major) \o <<".">> \o PyStr(minor + 1) \o <<".">> \o PyStr(patch)
               [] type = "patch" ->
                    PyStr(major) \o <<".">> \o PyStr(minor) \o <<".">> \o PyStr(patch + 1)
               [] OTHER -> ValueError

increment_version(version, type) ==
    LET parts == Split(version) IN
    IF Len(parts) # 3 THEN ValueError
    ELSE IF ~ \A i \in 1..3 : IsDigits(parts[i]) THEN ValueError
    ELSE LET major == PyInt(parts[1])
             minor == PyInt(parts[2])
             patch == PyInt(parts[3])
         IN  CASE type = "major" ->
                    PyStr(major + 1) \o <<".">> \o PyStr(0) \o <<".">> \o PyStr(0)
               [] type = "minor" ->
                    PyStr(major) \o <<".">> \o PyStr(minor + 1) \o <<".">> \o PyStr(0)
               [] type = "patch" ->
                    PyStr(major) \o <<".">> \o PyStr(minor) \o <<".">> \o PyStr(patch + 1)
               [] OTHER -> ValueError

----------------------------------------------------------------------------
(* parse_commit_message_for_increment and should_skip_version_update *)

MarkerMajor == <<"[","m","a","j","o","r","]">>
MarkerMinor == <<"[","m","i","n","o","r","]">>
MarkerPatch == <<"[","p","a","t","c","h","]">>
PhraseVersion == <<"a","u","t","o","-","i","n","c","r","e","m","e","n","t",
                   " ","v","e","r","s","i","o","n">>
PhraseChore == <<"c","h","o","r","e",":"," ","a","u","t","o","-","i","n","c",
                 "r","e","m","e","n","t">>

parse_commit_message_first_marker(message) ==
    LET lower == Lower(message)
        At(m) == CHOOSE i \in 0..(Len(lower) - Len(m)) :
                     /\ SubSeq(lower, i + 1, i + Len(m)) = m
                     /\ \A j \in 0..(i - 1) : SubSeq(lower, j + 1, j + Len(m)) # m
        present == {m \in {MarkerMajor, MarkerMinor, MarkerPatch} : Contains(lower, m)}
    IN  IF present = {} THEN "patch"
        ELSE LET first == CHOOSE m \in present : \A o \in present : At(m) <= At(o)
             IN  IF first = MarkerMajor THEN "major"
                 ELSE IF first = MarkerMinor THEN "minor" ELSE "patch"

parse_commit_message_for_increment(message) ==
    LET lower == Lower(message) IN
    IF Contains(lower, MarkerMajor) THEN "major"
    ELSE IF Contains(lower, MarkerMinor) THEN "minor"
    ELSE IF Contains(lower, MarkerPatch) THEN "patch"
    ELSE "patch"

should_skip_ignoring_markers(message) ==
    LET lower == Lower(message) IN
    Contains(lower, PhraseVersion) \/ Contains(lower, PhraseChore)

should_skip_requiring_both(message) ==
    LET lower == Lower(message) IN
    /\ Contains(lower, PhraseVersion) /\ Contains(lower, PhraseChore)
    /\ ~ \E marker \in {MarkerMajor, MarkerMinor, MarkerPatch} :
            Contains(lower, marker)

should_skip_version_update(message) ==
    LET lower == Lower(message) IN
    /\ Contains(lower, PhraseVersion) \/ Contains(lower, PhraseChore)
    /\ ~ \E marker \in {MarkerMajor, MarkerMinor, MarkerPatch} :
            Contains(lower, marker)

----------------------------------------------------------------------------
(* The version file: read_current_version and the text update_version_file  *)
(* computes                                                                 *)

VersionName == <<"_","_","v","e","r","s","i","o","n","_","_">>
DefaultVersion_0_1_0 == <<"0",".","1",".","0">>

DefaultVersion == <<"0",".","0",".","0">>

\* the first index at or after i whose character is not in set
RECURSIVE SkipWhile(_, _, _)
SkipWhile(s, i, set) ==
    IF i <= Len(s) /\ s[i] \in set THEN SkipWhile(s, i + 1, set) ELSE i

\* the first index at or after i whose character is a quote
RECURSIVE SkipToQuote(_, _)
SkipToQuote(s, i) ==
    IF i <= Len(s) /\ s[i] \notin Quotes THEN SkipToQuote(s, i + 1) ELSE i

\* __version__\s*=\s*["'] matched at p: the index of the quote, or 0
AssignHead(s, p) ==
    IF p + 10 <= Len(s) /\ SubSeq(s, p, p + 10) = VersionName
    THEN LET b == SkipWhile(s, p + 11, Whitespace) IN
         IF b <= Len(s) /\ s[b] = "="
         THEN LET c == SkipWhile(s, b + 1, Whitespace) IN
              IF c <= Len(s) /\ s[c] \in Quotes THEN c ELSE 0
         ELSE 0
    ELSE 0

\* __version__\s*=\s*["'](\d+\.\d+\.\d+)["'] matched at p: the index of the
\* closing quote, or 0
ReadMatchEnd(s, p) ==
    LET c == AssignHead(s, p) IN
    IF c = 0 THEN 0
    ELSE LET d1 == SkipWhile(s, c + 1, Digits) IN
         IF ~ (d1 > c + 1 /\ d1 <= Len(s) /\ s[d1] = ".") THEN 0
         ELSE LET d2 == SkipWhile(s, d1 + 1, Digits) IN
              IF ~ (d2 > d1 + 1 /\ d2 <= Len(s) /\ s[d2] = ".") THEN 0
              ELSE LET d3 == SkipWhile(s, d2 + 1, Digits) IN
                   IF d3 > d2 + 1 /\ d3 <= Len(s) /\ s[d3] \in Quotes
                   THEN d3 ELSE 0

\* __version__\s*=\s*["'][^"']+["'] matched at p: the index of the closing
\* quote, or 0
WriteMatchEnd(s, p) ==
    LET c == AssignHead(s, p) IN
    IF c = 0 THEN 0
    ELSE LET e == SkipToQuote(s, c + 1) IN
         IF e > c + 1 /\ e <= Len(s) THEN e ELSE 0

\* re.search(...).group(1), or NoText when there is no match
SearchVersion(s) ==
    IF \E p \in 1..Len(s) : ReadMatchEnd(s, p) > 0
    THEN LET p == CHOOSE q \in 1..Len(s) :
                      /\ ReadMatchEnd(s, q) > 0
                      /\ \A r \in 1..(q - 1) : ReadMatchEnd(s, r) = 0
         IN  SubSeq(s, AssignHead(s, p) + 1, ReadMatchEnd(s, p) - 1)
    ELSE NoText

\* f'__version__ = "{new_version}"'
Assignment(version) == VersionName \o <<" ","="," ","\"">> \o version \o <<"\"">>

\* re.sub(pattern, repl, s), from index p on
RECURSIVE SubFrom(_, _, _)
SubFrom(s, p, repl) ==
    IF p > Len(s) THEN <<>>
    ELSE IF WriteMatchEnd(s, p) > 0
         THEN repl \o SubFrom(s, WriteMatchEnd(s, p) + 1, repl)
         ELSE <<s[p]>> \o SubFrom(s, p + 1, repl)

read_current_version_any_value(f) ==
    IF f = NoFile THEN DefaultVersion
    ELSE IF \E p \in 1..Len(f) : WriteMatchEnd(f, p) > 0
    THEN LET p == CHOOSE q \in 1..Len(f) :
                      /\ WriteMatchEnd(f, q) > 0
                      /\ \A r \in 1..(q - 1) : WriteMatchEnd(f, r) = 0
         IN  SubSeq(f, AssignHead(f, p) + 1, WriteMatchEnd(f, p) - 1)
    ELSE DefaultVersion

read_current_version(f) ==
    IF f = NoFile THEN DefaultVersion
    ELSE IF SearchVersion(f) # NoText THEN SearchVersion(f)
    ELSE DefaultVersion

\* new_content of update_version_file, from the file as it was found
NewContent_no_fallback(f, version) ==
    IF f # NoFile
    THEN SubFrom(f, 1, Assignment(version))
    ELSE Assignment(version) \o <<"\n">>

NewContent(f, version) ==
    IF f # NoFile
    THEN LET subbed == SubFrom(f, 1, Assignment(version)) IN
         IF subbed = f
         THEN Assignment(version) \o <<"\n">>
         ELSE subbed
    ELSE Assignment(version) \o <<"\n">>

----------------------------------------------------------------------------
(* Inputs *)

Fragments == <<
    <<"[","M","A","J","O","R","]">>,
    <<"[","m","i","n","o","r","]">>,
    <<"[","P","a","t","c","h","]">>,
    <<"C","h","o","r","e",":"," ","A","u","t","o","-","I","n","c","r","e","m",
      "e","n","t"," ","V","e","r","s","i","o","n">>,
    <<"c","h","o","r","e",":"," ","a","u","t","o","-","i","n","c","r","e","m",
      "e","n","t">>,
    <<"a","u","t","o","-","i","n","c","r","e","m","e","n","t"," ","v","e","r",
      "s","i","o","n">>,
    <<" ","[","s","k","i","p"," ","c","i","]">>,
    <<"m","a","j","o","r"," ","f","i","x"," ">>,
    <<"[","p","a","t","c","h","]"," ","[","M","i","n","o","r","]">> >>

\* the fragments of the messages given to main
MainFragments ==
    <<Fragments[1], Fragments[3], Fragments[4], Fragments[5], Fragments[7],
      Fragments[9]>>

\* the messages made of at most n of the fragments
RECURSIVE MessagesUpTo(_, _)
MessagesUpTo(fragments, n) ==
    IF n = 0 THEN {<<>>}
    ELSE LET shorter == MessagesUpTo(fragments, n - 1) IN
         shorter \cup {m \o fragments[i] : m \in shorter, i \in 1..Len(fragments)}

VersionText(major, minor, patch) ==
    PyStr(major) \o <<".">> \o PyStr(minor) \o <<".">> \o PyStr(patch)

TestVersions ==
    {VersionText(a, b, c) : a \in 0..MaxComp, b \in 0..MaxComp, c \in 0..MaxComp}

IncrementTypes == {"major", "minor", "patch", "build"}

----------------------------------------------------------------------------
(* The pure functions applied to drawn inputs *)

InitMsg ==
    /\ pc = "fn"
    /\ \E m \in MessagesUpTo(Fragments, MaxFrags) :
        /\ commit_message = m
        /\ file = NoFile
        /\ caller = None
        /\ skip = FALSE
        /\ current_version = NoText
        /\ increment_type = None
        /\ new_version = NoText
        /\ content = NoText
        /\ new_content = NoText
        /\ update_ok = FALSE
        /\ exit_code = NoExit
        /\ outcome = None
        /\ read_back = NoText
        /\ runs = 0

ApplyShouldSkip ==
    /\ pc = "fn"
    /\ skip' = should_skip_version_update(commit_message)
    /\ pc' = "fn_skip"
    /\ UNCHANGED <<file, caller, commit_message, current_version,
                   increment_type, new_version, content, new_content,
                   update_ok, exit_code, outcome, read_back, runs>>

ApplyParse ==
    /\ pc = "fn_skip"
    /\ increment_type' = parse_commit_message_for_increment(commit_message)
    /\ pc' = "fn_done"
    /\ UNCHANGED <<file, caller, commit_message, skip, current_version,
                   new_version, content, new_content, update_ok, exit_code,
                   outcome, read_back, runs>>

NextMsg == ApplyShouldSkip \/ ApplyParse

SpecMsg == InitMsg /\ [][NextMsg]_vars

InitVer ==
    /\ pc = "fn"
    /\ \E v \in TestVersions, t \in IncrementTypes :
        /\ current_version = v
        /\ increment_type = t
        /\ file = NoFile
        /\ caller = None
        /\ commit_message = <<>>
        /\ skip = FALSE
        /\ new_version = NoText
        /\ content = NoText
        /\ new_content = NoText
        /\ update_ok = FALSE
        /\ exit_code = NoExit
        /\ outcome = None
        /\ read_back = NoText
        /\ runs = 0

ApplyIncrement ==
    /\ pc = "fn"
    /\ new_version' = increment_version(current_version, increment_type)
    /\ pc' = "fn_done"
    /\ UNCHANGED <<file, caller, commit_message, skip, current_version,
                   increment_type, content, new_content, update_ok,
                   exit_code, outcome, read_back, runs>>

NextVer == ApplyIncrement

SpecVer == InitVer /\ [][NextVer]_vars

----------------------------------------------------------------------------
(* Version files found by a call *)

Header == <<"#","h","\n">>
Trailer == <<"x","=","1","\n">>

InitialFiles == {
    NoFile,
    \* only a version line
    VersionName \o <<" ","="," ","\"","1",".","2",".","3","\"","\n">>,
    \* single quotes, no blanks, unrelated content around
    Header \o VersionName \o <<"=","'","9",".","9",".","9","'","\n">> \o Trailer,
    \* unrelated content only
    Header,
    \* the form the tool writes, unrelated content around
    Header \o VersionName \o <<" ","="," ","\"","1",".","0",".","0","\"","\n">> \o Trailer,
    \* a value that is not three integers
    VersionName \o <<" ","="," ","\"","1",".","2","\"","\n">>,
    \* an empty value
    VersionName \o <<" ","="," ","\"","\"","\n">> \o Trailer }

\* pieces of version files given to read_current_version
FileFragments == <<
    Header,
    VersionName \o <<" ","="," ","\"","1",".","2",".","3","\"","\n">>,
    VersionName \o <<"=","'","1","0",".","2","0",".","3","0","'">>,
    VersionName \o <<" ","\t","=","\n"," ","\"">>,
    <<"7",".","8",".","9">>,
    <<"1",".","x">>,
    <<"\"">>,
    <<".","4">> >>

UpdateVersions ==
    {VersionText(a, b, c) :
        a \in 0..MaxUpdComp, b \in 0..MaxUpdComp, c \in 0..MaxUpdComp}

----------------------------------------------------------------------------
(* update_version_file, step by step *)

\* version_file.parent.mkdir(parents=True, exist_ok=True)
UpdateMkdir ==
    /\ pc = "upd_mkdir"
    /\ pc' = "upd_read"
    /\ UNCHANGED <<file, caller, commit_message, skip, current_version,
                   increment_type, new_version, content, new_content,
                   update_ok, exit_code, outcome, read_back, runs>>

\* mkdir raises OSError; the call is outside the try block, so the exception
\* leaves update_version_file, and an uncaught exception ends main with
\* exit status 1
UpdateMkdirFails ==
    /\ pc = "upd_mkdir"
    /\ IF caller = "main"
       THEN /\ pc' = "done"
            /\ exit_code' = 1
            /\ outcome' = "Crash"
       ELSE /\ pc' = "upd_raised"
            /\ UNCHANGED <<exit_code, outcome>>
    /\ UNCHANGED <<file, caller, commit_message, skip, current_version,
                   increment_type, new_version, content, new_content,
                   update_ok, read_back, runs>>

\* lines 142-157: the content found and the content to write
UpdateRead ==
    /\ pc = "upd_read"
    /\ content' = file
    /\ new_content' = NewContent(file, new_version)
    /\ pc' = "upd_open"
    /\ UNCHANGED <<file, caller, commit_message, skip, current_version,
                   increment_type, new_version, update_ok, exit_code,
                   outcome, read_back, runs>>

\* open(version_file, 'r') or f.read() raises: caught at line 163
UpdateReadFails ==
    /\ pc = "upd_read"
    /\ file # NoFile
    /\ update_ok' = FALSE
    /\ pc' = "upd_ret"
    /\ UNCHANGED <<file, caller, commit_message, skip, current_version,
                   increment_type, new_version, content, new_content,
                   exit_code, outcome, read_back, runs>>

\* open(version_file, 'w') creates the file or truncates it
UpdateOpen ==
    /\ pc = "upd_open"
    /\ file' = <<>>
    /\ pc' = "upd_write"
    /\ UNCHANGED <<caller, commit_message, skip, current_version,
                   increment_type, new_version, content, new_content,
                   update_ok, exit_code, outcome, read_back, runs>>

\* open(version_file, 'w') raises: caught at line 163
UpdateOpenFails ==
    /\ pc = "upd_open"
    /\ update_ok' = FALSE
    /\ pc' = "upd_ret"
    /\ UNCHANGED <<file, caller, commit_message, skip, current_version,
                   increment_type, new_version, content, new_content,
                   exit_code, outcome, read_back, runs>>

\* f.write(new_content) and the close at the end of the with block
UpdateWrite ==
    /\ pc = "upd_write"
    /\ file' = new_content
    /\ update_ok' = TRUE
    /\ pc' = "upd_ret"
    /\ UNCHANGED <<caller, commit_message, skip, current_version,
                   increment_type, new_version, content, new_content,
                   exit_code, outcome, read_back, runs>>

\* the write or the flush raises after nothing or a part of new_content
\* reached the file: caught at line 163
UpdateWriteFails ==
    /\ pc = "upd_write"
    /\ \E n \in {0, Len(new_content) \div 2} :
          file' = SubSeq(new_content, 1, n)
    /\ update_ok' = FALSE
    /\ pc' = "upd_ret"
    /\ UNCHANGED <<caller, commit_message, skip, current_version,
                   increment_type, new_version, content, new_content,
                   exit_code, outcome, read_back, runs>>

\* the process is killed inside update_version_file
Interrupt ==
    /\ pc \in {"upd_mkdir", "upd_read", "upd_open", "upd_write"}
    /\ pc' = "killed"
    /\ UNCHANGED <<file, caller, commit_message, skip, current_version,
                   increment_type, new_version, content, new_content,
                   update_ok, exit_code, outcome, read_back, runs>>

\* read_current_version called after update_version_file returned
ReadBack ==
    /\ pc = "upd_ret"
    /\ caller = "direct"
    /\ read_back' = read_current_version(file)
    /\ pc' = "upd_done"
    /\ UNCHANGED <<file, caller, commit_message, skip, current_version,
                   increment_type, new_version, content, new_content,
                   update_ok, exit_code, outcome, runs>>

InitUpd ==
    /\ pc = "upd_mkdir"
    /\ caller = "direct"
    /\ file \in InitialFiles
    /\ new_version \in UpdateVersions
    /\ commit_message = <<>>
    /\ skip = FALSE
    /\ current_version = NoText
    /\ increment_type = None
    /\ content = NoText
    /\ new_content = NoText
    /\ update_ok = FALSE
    /\ exit_code = NoExit
    /\ outcome = None
    /\ read_back = NoText
    /\ runs = 0

NextUpd ==
    \/ UpdateMkdir
    \/ UpdateMkdirFails
    \/ UpdateRead
    \/ UpdateReadFails
    \/ UpdateOpen
    \/ UpdateOpenFails
    \/ UpdateWrite
    \/ UpdateWriteFails
    \/ Interrupt
    \/ ReadBack

SpecUpd == InitUpd /\ [][NextUpd]_vars

----------------------------------------------------------------------------
(* main, run after run *)

\* a new process: lines 171-175
MainStart ==
    /\ pc \in {"idle", "done"}
    /\ runs < MaxRuns
    /\ runs' = runs + 1
    /\ current_version' = read_current_version(file)
    /\ caller' = "main"
    /\ commit_message' = <<>>
    /\ skip' = FALSE
    /\ increment_type' = None
    /\ new_version' = NoText
    /\ content' = NoText
    /\ new_content' = NoText
    /\ update_ok' = FALSE
    /\ exit_code' = NoExit
    /\ outcome' = None
    /\ pc' = "main_git"
    /\ UNCHANGED <<file, read_back>>

\* get_latest_commit_message: git prints the message of the latest commit
MainGetMessage ==
    /\ pc = "main_git"
    /\ \E raw \in MessagesUpTo(MainFragments, MaxMainFrags) : commit_message' = Strip(raw)
    /\ pc' = "main_skip"
    /\ UNCHANGED <<file, caller, skip, current_version, increment_type,
                   new_version, content, new_content, update_ok, exit_code,
                   outcome, read_back, runs>>

MainGitFails_raises ==
    /\ pc = "main_git"
    /\ commit_message' = <<>>
    /\ exit_code' = 1
    /\ outcome' = "Crash"
    /\ pc' = "done"
    /\ UNCHANGED <<file, caller, skip, current_version, increment_type,
                   new_version, content, new_content, update_ok, read_back,
                   runs>>

\* get_latest_commit_message: git fails or is not installed
MainGitFails ==
    /\ pc = "main_git"
    /\ commit_message' = <<>>
    /\ pc' = "main_skip"
    /\ UNCHANGED <<file, caller, skip, current_version, increment_type,
                   new_version, content, new_content, update_ok, exit_code,
                   outcome, read_back, runs>>

\* lines 181-183
MainCheckSkip ==
    /\ pc = "main_skip"
    /\ skip' = should_skip_version_update(commit_message)
    /\ IF skip'
       THEN /\ exit_code' = 0
            /\ outcome' = "Unchanged"
            /\ pc' = "done"
       ELSE /\ pc' = "main_parse"
            /\ UNCHANGED <<exit_code, outcome>>
    /\ UNCHANGED <<file, caller, commit_message, current_version,
                   increment_type, new_version, content, new_content,
                   update_ok, read_back, runs>>

\* line 185
MainParse ==
    /\ pc = "main_parse"
    /\ increment_type' = parse_commit_message_for_increment(commit_message)
    /\ pc' = "main_incr"
    /\ UNCHANGED <<file, caller, commit_message, skip, current_version,
                   new_version, content, new_content, update_ok, exit_code,
                   outcome, read_back, runs>>

\* line 191; a ValueError is not caught and ends main with exit status 1
MainIncrement ==
    /\ pc = "main_incr"
    /\ LET result == increment_version(current_version, increment_type) IN
       IF result = ValueError
       THEN /\ pc' = "done"
            /\ exit_code' = 1
            /\ outcome' = "Crash"
            /\ UNCHANGED new_version
       ELSE /\ new_version' = result
            /\ pc' = "upd_mkdir"
            /\ UNCHANGED <<exit_code, outcome>>
    /\ UNCHANGED <<file, caller, commit_message, skip, current_version,
                   increment_type, content, new_content, update_ok,
                   read_back, runs>>

\* lines 195-204
MainExit ==
    /\ pc = "upd_ret"
    /\ caller = "main"
    /\ IF update_ok
       THEN IF current_version # new_version
            THEN exit_code' = 0 /\ outcome' = "Changed"
            ELSE exit_code' = 1 /\ outcome' = "Unchanged"
       ELSE exit_code' = 1 /\ outcome' = "Error"
    /\ pc' = "done"
    /\ UNCHANGED <<file, caller, commit_message, skip, current_version,
                   increment_type, new_version, content, new_content,
                   update_ok, read_back, runs>>

Init ==
    /\ pc = "idle"
    /\ file \in InitialFiles
    /\ caller = None
    /\ commit_message = <<>>
    /\ skip = FALSE
    /\ current_version = NoText
    /\ increment_type = None
    /\ new_version = NoText
    /\ content = NoText
    /\ new_content = NoText
    /\ update_ok = FALSE
    /\ exit_code = NoExit
    /\ outcome = None
    /\ read_back = NoText
    /\ runs = 0

Next ==
    \/ MainStart
    \/ MainGitFails
    \/ MainGetMessage
    \/ MainCheckSkip
    \/ MainParse
    \/ MainIncrement
    \/ UpdateMkdir
    \/ UpdateMkdirFails
    \/ UpdateRead
    \/ UpdateReadFails
    \/ UpdateOpen
    \/ UpdateOpenFails
    \/ UpdateWrite
    \/ UpdateWriteFails
    \/ MainExit

Spec == Init /\ [][Next]_vars

----------------------------------------------------------------------------
(* main from line 190 on, entered with every increment class given *)

InitIncr ==
    /\ pc = "main_incr"
    /\ file \in InitialFiles
    /\ caller = "main"
    /\ commit_message = <<>>
    /\ skip = FALSE
    /\ current_version = read_current_version(file)
    /\ increment_type \in IncrementTypes
    /\ new_version = NoText
    /\ content = NoText
    /\ new_content = NoText
    /\ update_ok = FALSE
    /\ exit_code = NoExit
    /\ outcome = None
    /\ read_back = NoText
    /\ runs = 1

NextIncr ==
    \/ MainIncrement
    \/ UpdateMkdir
    \/ UpdateMkdirFails
    \/ UpdateRead
    \/ UpdateReadFails
    \/ UpdateOpen
    \/ UpdateOpenFails
    \/ UpdateWrite
    \/ UpdateWriteFails
    \/ MainExit

SpecIncr == InitIncr /\ [][NextIncr]_vars

----------------------------------------------------------------------------
(* read_current_version applied to drawn files *)

InitRead ==
    /\ pc = "rd"
    /\ file \in {NoFile} \cup MessagesUpTo(FileFragments, MaxFileFrags)
    /\ caller = None
    /\ commit_message = <<>>
    /\ skip = FALSE
    /\ current_version = NoText
    /\ increment_type = None
    /\ new_version = NoText
    /\ content = NoText
    /\ new_content = NoText
    /\ update_ok = FALSE
    /\ exit_code = NoExit
    /\ outcome = None
    /\ read_back = NoText
    /\ runs = 0

\* lines 17-31
ApplyRead ==
    /\ pc = "rd"
    /\ read_back' = read_current_version(file)
    /\ pc' = "rd_done"
    /\ UNCHANGED <<file, caller, commit_message, skip, current_version,
                   increment_type, new_version, content, new_content,
                   update_ok, exit_code, outcome, runs>>

\* open or f.read() raises: caught at line 32, the default is returned
ApplyReadFails ==
    /\ pc = "rd"
    /\ file # NoFile
    /\ read_back' = DefaultVersion
    /\ pc' = "rd_failed"
    /\ UNCHANGED <<file, caller, commit_message, skip, current_version,
                   increment_type, new_version, content, new_content,
                   update_ok, exit_code, outcome, runs>>

NextRead == ApplyRead \/ ApplyReadFails

SpecRead == InitRead /\ [][NextRead]_vars

----------------------------------------------------------------------------
(* Properties *)

UpperTable ==
    [c \in {LowerChars[i] : i \in 1..26} |->
        UpperChars[CHOOSE i \in 1..26 : LowerChars[i] = c]]

UpperOf(c) == IF c \in DOMAIN UpperTable THEN UpperTable[c] ELSE c

\* hay contains needle (given in lower case) in some letter case
ContainsAnyCase(hay, needle) ==
    \E i \in 0..(Len(hay) - Len(needle)) :
        \A k \in 1..Len(needle) :
            hay[i + k] = needle[k] \/ hay[i + k] = UpperOf(needle[k])

HasMarker(m) ==
    \/ ContainsAnyCase(m, MarkerMajor)
    \/ ContainsAnyCase(m, MarkerMinor)
    \/ ContainsAnyCase(m, MarkerPatch)

V_9_9_9 == <<"9",".","9",".","9">>
V_10_0_0 == <<"1","0",".","0",".","0">>
V_9_9_10 == <<"9",".","9",".","1","0">>

C3_Original ==
    pc \in {"fn_skip", "fn_done"} =>
        (skip <=> /\ ContainsAnyCase(commit_message, PhraseVersion)
                  /\ ~ HasMarker(commit_message))

\* C3 amended: should_skip_version_update returns True exactly when the
\* message contains, in any letter case, "auto-increment version" or
\* "chore: auto-increment", and contains none of the three markers.
C3_ShouldSkip ==
    pc \in {"fn_skip", "fn_done"} =>
        (skip <=> /\ \/ ContainsAnyCase(commit_message, PhraseVersion)
                     \/ ContainsAnyCase(commit_message, PhraseChore)
                  /\ ~ HasMarker(commit_message))

C3_Witness ==
    /\ pc = "fn_skip"
    /\ commit_message = Fragments[5] \o Fragments[7]
    /\ skip

LoopGuarded(m) ==
    \/ ContainsAnyCase(m, PhraseVersion)
    \/ ContainsAnyCase(m, PhraseChore)

HighestMarker(m) ==
    IF ContainsAnyCase(m, MarkerMajor) THEN "major"
    ELSE IF ContainsAnyCase(m, MarkerMinor) THEN "minor"
    ELSE "patch"

\* new is old bumped by class, on the components
IsBump(old, new, class) ==
    \E a \in 0..(MaxComp + MaxRuns), b \in 0..(MaxComp + MaxRuns),
       c \in 0..(MaxComp + MaxRuns) :
        /\ old = VersionText(a, b, c)
        /\ new = CASE class = "major" -> VersionText(a + 1, 0, 0)
                   [] class = "minor" -> VersionText(a, b + 1, 0)
                   [] class = "patch" -> VersionText(a, b, c + 1)

V_1_0_0 == <<"1",".","0",".","0">>
V_1_0_1 == <<"1",".","0",".","1">>

\* C4: a run whose commit message triggers the loop guard and carries no
\* marker never writes or creates the version file and ends Unchanged with
\* the stored version as it was read at the start, run after run.
C4_SkipIdempotent ==
    [][ /\ pc' = "main_git" => file' = file
        /\ (LoopGuarded(commit_message') /\ ~ HasMarker(commit_message')) =>
              /\ file' = file
              /\ pc' \in {"main_skip", "done"}
              /\ pc' = "done" =>
                    /\ outcome' = "Unchanged"
                    /\ read_current_version(file') = current_version' ]_vars

C4_Witness ==
    /\ pc = "done"
    /\ runs = 2
    /\ LoopGuarded(commit_message) /\ ~ HasMarker(commit_message)
    /\ outcome = "Unchanged"
    /\ file = NoFile

\* C5: a commit message with a loop-guard phrase and at least one marker is
\* not skipped: the run bumps the stored version by the class of the
\* highest-ranked marker present and, the write having succeeded, ends Changed
\* (1.0.0 with a guard phrase and [patch] gives Changed(1.0.1)).
C5_MarkerOverridesGuard ==
    /\ skip => ~ (LoopGuarded(commit_message) /\ HasMarker(commit_message))
    /\ (/\ pc = "done"
        /\ LoopGuarded(commit_message) /\ HasMarker(commit_message)) =>
          /\ IF update_ok
             THEN /\ outcome = "Changed"
                  /\ exit_code = 0
                  /\ IsBump(current_version, new_version,
                            HighestMarker(commit_message))
                  /\ read_current_version(file) = new_version
             ELSE outcome \in {"Error", "Crash"}
          /\ (/\ update_ok
              /\ current_version = V_1_0_0
              /\ commit_message = Fragments[4] \o Fragments[3]) =>
                read_current_version(file) = V_1_0_1

C5_Witness ==
    /\ pc = "done"
    /\ commit_message = Fragments[4] \o Fragments[9]
    /\ current_version = V_1_0_0
    /\ outcome = "Changed"
    /\ read_current_version(file) = <<"1",".","1",".","0">>

SuccessCode == 0
FailureCode == 1

\* C6: the exit code keeps the three outcomes apart: Changed exits with the
\* success code, Unchanged with a code that is neither the success code nor
\* the failure code, Error with the failure code.
C6_ExitCodes ==
    pc = "done" =>
        /\ outcome = "Changed" => exit_code = SuccessCode
        /\ outcome = "Unchanged" => exit_code \notin {SuccessCode, FailureCode}
        /\ outcome = "Error" => exit_code = FailureCode

\* t is a version of three dot-separated runs of digits
IsVersionValue(t) ==
    /\ Len(t) >= 5
    /\ \A k \in 1..Len(t) : t[k] \in Digits \cup {"."}
    /\ Cardinality({k \in 1..Len(t) : t[k] = "."}) = 2
    /\ t[1] # "." /\ t[Len(t)] # "."
    /\ \A k \in 1..(Len(t) - 1) : ~ (t[k] = "." /\ t[k + 1] = ".")

\* t is a version assignment: the name, "=", and a quoted version
IsAssignmentText(t) ==
    /\ Len(t) > Len(VersionName) + 3
    /\ SubSeq(t, 1, Len(VersionName)) = VersionName
    /\ t[Len(t)] \in Quotes
    /\ \E e \in (Len(VersionName) + 1)..(Len(t) - 2), q \in 1..(Len(t) - 1) :
          /\ e < q
          /\ t[e] = "="
          /\ t[q] \in Quotes
          /\ \A k \in ((Len(VersionName) + 1)..(q - 1)) \ {e} : t[k] \in Whitespace
          /\ IsVersionValue(SubSeq(t, q + 1, Len(t) - 1))

HasAssignment(t) ==
    \E i \in 1..Len(t), j \in 1..Len(t) :
        i < j /\ IsAssignmentText(SubSeq(t, i, j))

MentionsVersion(t) == Contains(t, VersionName)

\* the content the call found, as text
Found == IF content = NoFile THEN <<>> ELSE content

\* the file is the content found with one assignment replaced by that of
\* new_version
OnlyAssignmentReplaced ==
    \E i \in 1..Len(Found), j \in 1..Len(Found) :
        /\ i < j
        /\ IsAssignmentText(SubSeq(Found, i, j))
        /\ file = SubSeq(Found, 1, i - 1) \o Assignment(new_version)
                    \o SubSeq(Found, j + 1, Len(Found))

\* the file is the content found with the assignment line of new_version
\* put in somewhere
AssignmentLineAdded ==
    \E i \in 0..Len(Found) :
        file = SubSeq(Found, 1, i) \o Assignment(new_version) \o <<"\n">>
                  \o SubSeq(Found, i + 1, Len(Found))

\* C7: for every version V and every content found (no file, a version
\* line alone or among unrelated content, a version line that holds V
\* already, unrelated content only), update_version_file(path, V) followed
\* by read_current_version(path) returns V, and the content other than the
\* version assignment is what it was.
C7_RoundTrip ==
    (/\ pc = "upd_done" /\ update_ok
     /\ HasAssignment(Found) \/ ~ MentionsVersion(Found)) =>
        /\ read_back = new_version
        /\ IF HasAssignment(Found)
           THEN OnlyAssignmentReplaced
           ELSE AssignmentLineAdded

\* C8: when the file holds a version assignment, update_version_file
\* replaces only that assignment by __version__ = "<new>" and leaves every
\* other byte as it was, also when <new> is the version already stored.
C8_OnlyAssignmentReplaced ==
    (/\ pc \in {"upd_ret", "upd_done"} /\ update_ok
     /\ content # NoFile /\ HasAssignment(content)) =>
        OnlyAssignmentReplaced

\* C9: when the file exists and holds no version assignment, afterwards it
\* is the previous content followed by the line __version__ = "<new>".
C9_AssignmentAppended ==
    (/\ pc \in {"upd_ret", "upd_done"} /\ update_ok
     /\ content # NoFile /\ ~ MentionsVersion(content)) =>
        file = content \o Assignment(new_version) \o <<"\n">>

\* C10: at every point of update_version_file the file holds exactly its
\* prior content or exactly the fully updated content, never an empty, cut
\* or partly written one.
C10_PriorOrUpdated ==
    new_content # NoText => (file = content \/ file = new_content)

\* C11: update_version_file never raises to its caller: a failure in any
\* of its steps (creating the directory, reading the file, writing the new
\* content) becomes the return value False, and main then ends Error with
\* the failure code.
C11_NeverRaises ==
    /\ pc # "upd_raised"
    /\ (pc = "done" /\ caller = "main" /\ new_version # NoText /\ ~ update_ok) =>
          outcome = "Error" /\ exit_code = FailureCode

V_0_0_0 == <<"0",".","0",".","0">>

\* the value of the leftmost version assignment of f; 0.0.0 when f is no
\* file or holds no version assignment
StoredVersion(f) ==
    IF f = NoFile \/ ~ HasAssignment(f) THEN V_0_0_0
    ELSE LET i == CHOOSE k \in 1..Len(f) :
                      /\ \E j \in (k + 1)..Len(f) : IsAssignmentText(SubSeq(f, k, j))
                      /\ \A h \in 1..(k - 1) :
                            ~ \E j \in (h + 1)..Len(f) : IsAssignmentText(SubSeq(f, h, j))
             j == CHOOSE k \in (i + 1)..Len(f) : IsAssignmentText(SubSeq(f, i, k))
             q == CHOOSE k \in i..j : f[k] \in Quotes /\ \A h \in i..(k - 1) : f[h] \notin Quotes
         IN  SubSeq(f, q + 1, j - 1)

\* C12: read_current_version returns 0.0.0, without raising, when the
\* file does not exist, when it holds no assignment of the form
\* __version__ = "<digits>.<digits>.<digits>" (either quote, any blanks
\* around =), when the value is malformed, and when reading fails; in every
\* other case it returns the three components of the assignment found.
C12_ReadCurrentVersion ==
    /\ pc = "rd_done" => read_back = StoredVersion(file)
    /\ pc = "rd_failed" => read_back = V_0_0_0

C12_Witness ==
    /\ pc = "rd_done"
    /\ file = FileFragments[4] \o FileFragments[6] \o FileFragments[7]
    /\ read_back = V_0_0_0

V_0_0_1 == <<"0",".","0",".","1">>
V_0_1_0 == <<"0",".","1",".","0">>

\* the first version, by the class of the message
FirstVersion(m) ==
    CASE HighestMarker(m) = "major" -> V_1_0_0
      [] HighestMarker(m) = "minor" -> V_0_1_0
      [] HighestMarker(m) = "patch" -> V_0_0_1

\* C13: a run that starts with no version file, on a message that has a
\* marker or no skip phrase, is not skipped and computes 1.0.0 for [major],
\* 0.1.0 for [minor] and 0.0.1 otherwise; once its write has succeeded the
\* file exists, the version read back from it is that version and the run
\* ends Changed.
C13_FirstRun ==
    /\ (pc = "done" /\ update_ok /\ content = NoFile) =>
          /\ file # NoFile
          /\ outcome = "Changed"
          /\ read_current_version(file) = FirstVersion(commit_message)
    /\ (pc = "done" /\ file = NoFile /\ skip) =>
          LoopGuarded(commit_message) /\ ~ HasMarker(commit_message)
    /\ (pc = "done" /\ file = NoFile /\ ~ skip) =>
          new_version = FirstVersion(commit_message)

C13_Witness ==
    /\ pc = "done"
    /\ content = NoFile
    /\ update_ok
    /\ commit_message = Fragments[5] \o Fragments[9]
    /\ read_current_version(file) = V_0_1_0

\* the components of a version text, as numbers
Component(v, i) == PyInt(Split(v)[i])

\* a is before b in the lexicographic order on (major, minor, patch)
VersionLess(a, b) ==
    \/ Component(a, 1) < Component(b, 1)
    \/ /\ Component(a, 1) = Component(b, 1)
       /\ \/ Component(a, 2) < Component(b, 2)
          \/ /\ Component(a, 2) = Component(b, 2)
             /\ Component(a, 3) < Component(b, 3)

\* C14: the version a run computes is after the version it read; at the end
\* of every run the stored version is not before the version read at its
\* start, and when the run was not skipped and its write succeeded the
\* stored version is after it and the run ends Changed.
C14_NeverDecreases ==
    /\ (pc \in {"upd_mkdir", "done"} /\ new_version # NoText) =>
          VersionLess(current_version, new_version)
    /\ pc = "done" =>
          /\ ~ VersionLess(read_current_version(file), current_version)
          /\ update_ok =>
                /\ VersionLess(current_version, read_current_version(file))
                /\ outcome = "Changed"

\* bump((0, 0, 0), class)
BumpOfZero(class) ==
    CASE class = "major" -> V_1_0_0
      [] class = "minor" -> V_0_1_0
      [] class = "patch" -> V_0_0_1

\* C15: a version file that exists and holds no parsable version
\* assignment is read as 0.0.0 and the run goes on; when the run is not
\* skipped and its write succeeds it ends Changed with the bump of 0.0.0 by
\* its class, and reading the file afterwards returns exactly that version.
C15_MalformedNotFatal ==
    /\ (pc \in {"main_git", "main_skip", "main_parse", "main_incr"}
        /\ file # NoFile /\ ~ HasAssignment(file)) =>
          current_version = V_0_0_0
    /\ (pc = "done" /\ update_ok /\ content # NoFile /\ ~ HasAssignment(content)) =>
          /\ outcome = "Changed"
          /\ new_version = BumpOfZero(increment_type)
          /\ read_current_version(file) = new_version

C15_Witness ==
    /\ pc = "done"
    /\ update_ok
    /\ content = VersionName \o <<" ","="," ","\"","1",".","2","\"","\n">>
    /\ increment_type = "major"
    /\ outcome = "Changed"
    /\ read_current_version(file) = V_1_0_0

V_1_2_3 == <<"1",".","2",".","3">>
V_1_2_4 == <<"1",".","2",".","4">>

\* C17: when git fails or is not installed the message of the run is
\* empty; such a run is not skipped, its class is patch, its new version is
\* (major, minor, patch + 1), and once its write has succeeded the file
\* holds that version and the run ends Changed.
C17_GitUnavailable ==
    (caller = "main" /\ commit_message = <<>>) =>
        /\ pc \in {"main_parse", "main_incr", "done"} => ~ skip
        /\ pc \in {"main_incr", "done"} => increment_type = "patch"
        /\ pc = "done" => IsBump(current_version, new_version, "patch")
        /\ (pc = "done" /\ update_ok) =>
              /\ outcome = "Changed"
              /\ read_current_version(file) = new_version

C17_Witness ==
    /\ pc = "done"
    /\ caller = "main"
    /\ commit_message = <<>>
    /\ current_version = V_1_2_3
    /\ outcome = "Changed"
    /\ read_current_version(file) = V_1_2_4

====
